---- MODULE Spec2Model ----
(***************************************************************************)
(* ChatmixCoreAudio: a USB headset dial drives per-application volumes.    *)
(*                                                                         *)
(* The model follows the class-based variant (src/coremix.py, CoreMix).    *)
(* Two threads share the object's fields: usb_reader (the Dial Poll Loop)  *)
(* and monitor_new_sessions (the Session Poll Loop).  Both call            *)
(* set_volume_levels (the Applier).  Python switches threads between       *)
(* bytecodes, so every read or write of a shared field is a step of its    *)
(* own unless it commutes with everything the other thread can do.         *)
(*                                                                         *)
(* Volumes are kept in hundredths of full scale: SetMasterVolume(l / 100)  *)
(* is recorded as the level l.                                             *)
(***************************************************************************)
EXTENDS Integers, FiniteSets, Sequences, TLC

\* ---------------------------------------------------------------- bounds
\* Number of reports the dial delivers in a run, and number of times an
\* audio session appears or disappears in a run.
MaxReports == 1
MaxChanges == 2
\* The same for runs with a busier dial (SpecDial) ...
MaxDialReports == 2
MaxDialChanges == 2
\* ... for runs with more coming and going of sessions (SpecChurn) ...
MaxChurnReports == 1
MaxChurnChanges == 3
\* ... for runs of a host program that calls stop() (SpecStop) ...
MaxStopReports == 1
MaxStopChanges == 2
\* ... and for runs with two processes of one executable (SpecTwins).
MaxTwinReports == 1
MaxTwinChanges == 2

\* ------------------------------------------------------------- constants
FullLevel == 100
ETIMEDOUT == 110
ENODEV == 19
EIO == 5

\* Levels a report byte can carry in the model.
Levels == {40, FullLevel}
\* Process names: "v" voice only, "x" excluded only, "b" in both name sets,
\* "s" in neither.
voice_apps == {"v", "b"}
exclude_apps == {"x", "b"}

Threads == {"usb", "mon"}

\* An audio session as the provider lists it; ProcessId 0 has no Process.
Session(n, i) == [name |-> n, id |-> i]
SystemSounds == Session("", 0)
HasProcess(session) == session.id # 0

\* The processes that can run: the operating system hands out process ids 1
\* and 2 and reuses them, id 1 for "x" and "v", id 2 for "s" and "b".
Apps == {Session("x", 1), Session("v", 1), Session("s", 2), Session("b", 2)}
\* Two processes of one executable: "v" runs under id 1 and under id 2.
TwinApps == {Session("v", 1), Session("v", 2)}

VARIABLES
    live,            \* sessions of running processes (the provider's state)
    vol,             \* id -> level last set by SetMasterVolume, where set
    voice_level,     \* self.voice_level
    system_level,    \* self.system_level
    known_sessions,  \* self.known_sessions
    voice_ids,       \* self.voice_ids
    exclude_ids,     \* self.exclude_ids
    exit_event,      \* self.exit_event
    ctl,             \* the main thread: position in __init__ / run()
    stop,            \* a caller of stop(): position in it
    pc,              \* thread -> position in its function
    data,            \* usb_reader: the report read (offsets 0..2)
    errno,           \* usb_reader: errno of the USBError caught
    current_sessions,\* monitor_new_sessions: current_sessions
    new_sessions,    \* monitor_new_sessions: new_sessions still to visit
    arg_voice,       \* monitor_new_sessions: first argument, evaluated
    args,            \* set_volume_levels, per caller: (voice_level, system_level)
    sessions,        \* set_volume_levels, per caller: the list of sessions
    handled,         \* set_volume_levels, per caller: sessions iterated so far
    calls,           \* set_volume_levels, per caller: SetMasterVolume calls made
    reportsLeft,     \* reports the dial will still deliver
    changesLeft,     \* session changes that will still happen
    apps             \* the processes that can run in this execution

vars == <<live, vol, voice_level, system_level, known_sessions, voice_ids,
          exclude_ids, exit_event, ctl, stop, pc, data, errno, current_sessions,
          new_sessions, arg_voice, args, sessions, handled, calls,
          reportsLeft, changesLeft, apps>>

shared == <<voice_level, system_level, known_sessions, voice_ids, exclude_ids>>
usbLocals == <<data, errno>>
monLocals == <<current_sessions, new_sessions, arg_voice>>
passVars == <<args, sessions, handled, calls>>
budget == <<reportsLeft, changesLeft>>
lifecycle == <<ctl, stop>>

\* ------------------------------------------------------------ the provider
\* AudioUtilities.GetAllSessions()
GetAllSessions == live \cup {SystemSounds}

\* set((session.Process.name(), session.ProcessId) for session in ... if session.Process)
SessionKeys == {s \in GetAllSessions : HasProcess(s)}

LiveIds == {s.id : s \in live}

NoReport == [i \in 0..2 |-> 0]
Reports == {[i \in 0..2 |-> IF i = 1 THEN b1 ELSE IF i = 2 THEN b2 ELSE 0] :
               b1 \in Levels, b2 \in Levels}

\* The frame of set_volume_levels when its caller is not in it.
NoPass == [args |-> <<100, 100>>, sessions |-> {}, handled |-> {}, calls |-> {}]

\* The program is launched: CoreMix.__init__ is about to run and no thread
\* has been started.  Applications that start playing audio before the
\* Session Poll Loop takes its first snapshot are the ones of the startup
\* snapshot.
Start ==
    /\ live = {}
    /\ vol = [i \in {} |-> 0]
    /\ voice_level = 100
    /\ system_level = 100
    /\ known_sessions = {}
    /\ voice_ids = {}
    /\ exclude_ids = {}
    /\ exit_event = FALSE
    /\ ctl = "construct"
    /\ stop = "idle"
    /\ pc = [t \in Threads |-> "new"]
    /\ data = NoReport
    /\ errno = 0
    /\ current_sessions = {}
    /\ new_sessions = {}
    /\ arg_voice = 100
    /\ args = [t \in Threads |-> NoPass.args]
    /\ sessions = [t \in Threads |-> NoPass.sessions]
    /\ handled = [t \in Threads |-> NoPass.handled]
    /\ calls = [t \in Threads |-> NoPass.calls]

Init == Start /\ apps = Apps /\ reportsLeft = MaxReports /\ changesLeft = MaxChanges
InitDial ==
    Start /\ apps = Apps /\ reportsLeft = MaxDialReports /\ changesLeft = MaxDialChanges
InitChurn ==
    Start /\ apps = Apps /\ reportsLeft = MaxChurnReports /\ changesLeft = MaxChurnChanges
InitStop ==
    Start /\ apps = Apps /\ reportsLeft = MaxStopReports /\ changesLeft = MaxStopChanges
InitTwins ==
    Start /\ apps = TwinApps /\ reportsLeft = MaxTwinReports /\ changesLeft = MaxTwinChanges

Goto(t, label) == pc' = [pc EXCEPT ![t] = label]

\* ------------------------------------------------------------- environment
\* A process starts producing audio (a new session, volume not yet touched).
SessionAppears(s) ==
    /\ changesLeft > 0
    /\ s.id \notin LiveIds
    /\ live' = live \cup {s}
    /\ changesLeft' = changesLeft - 1
    /\ UNCHANGED <<vol, shared, exit_event, lifecycle, pc, usbLocals, monLocals, passVars,
                   reportsLeft, apps>>

\* A process exits; its session goes away.
SessionDisappears(s) ==
    /\ changesLeft > 0
    /\ s \in live
    /\ live' = live \ {s}
    /\ vol' = [j \in DOMAIN vol \ {s.id} |-> vol[j]]
    /\ changesLeft' = changesLeft - 1
    /\ UNCHANGED <<shared, exit_event, lifecycle, pc, usbLocals, monLocals, passVars, reportsLeft, apps>>

\* ------------------------------------------------------------ Dial Decoder
VoiceByte_FromSystemOffset(d) == d[1]
VoiceByte(d) == d[2]
SystemByte(d) == d[1]
Accepted(d) == VoiceByte(d) = 100 \/ SystemByte(d) = 100

\* ---------------------------------------------------------------- Applier
\* The if/elif/else of set_volume_levels: which branch a process id takes.
Treatment(app_id) ==
    IF app_id \in voice_ids THEN "Voice"
    ELSE IF app_id \in exclude_ids THEN "Excluded"
    ELSE "System"

BranchLevel_AlwaysSystem(branch, voice, system) == system

\* The level the branch passes to SetMasterVolume.
BranchLevel(branch, voice, system) ==
    IF branch = "Voice" THEN voice ELSE system

\* volume.SetMasterVolume(level / 100, None) on a session of process app_id.
SetMasterVolume(app_id, level) ==
    vol' = [j \in DOMAIN vol \cup {app_id} |-> IF j = app_id THEN level ELSE vol[j]]

\* Where an exception raised inside set_volume_levels lands, per caller.
\* usb_reader: "except Exception" then "finally"; monitor_new_sessions:
\* "except NoSuchProcess: continue", anything else ends the thread.
OnNoSuchProcess(t) == IF t = "mon" THEN "loop" ELSE "finally"
OnOtherError(t) == IF t = "mon" THEN "dead" ELSE "finally"

LeaveApplier(t) ==
    /\ args' = [args EXCEPT ![t] = NoPass.args]
    /\ sessions' = [sessions EXCEPT ![t] = NoPass.sessions]
    /\ handled' = [handled EXCEPT ![t] = NoPass.handled]
    /\ calls' = [calls EXCEPT ![t] = NoPass.calls]

\* sessions = AudioUtilities.GetAllSessions(), with the arguments bound.
EnterApplier(t, voice, system) ==
    /\ args' = [args EXCEPT ![t] = <<voice, system>>]
    /\ sessions' = [sessions EXCEPT ![t] = GetAllSessions]
    /\ handled' = [handled EXCEPT ![t] = {}]
    /\ calls' = [calls EXCEPT ![t] = {}]
    /\ Goto(t, "apply")

\* The sessions of the list that "if session.Process" lets through and the
\* for loop has not reached yet; the provider lists sessions by process id.
Remaining(t) == {s \in sessions[t] \ handled[t] : HasProcess(s)}
NextSession(t) == CHOOSE s \in Remaining(t) : \A u \in Remaining(t) : s.id <= u.id

ApplierVisit_InsertsEntry(t) ==
    /\ pc[t] = "apply"
    /\ Remaining(t) # {}
    /\ LET session == NextSession(t)
           branch == Treatment(session.id)
           level == BranchLevel(branch, args[t][1], args[t][2])
       IN /\ handled' = [handled EXCEPT ![t] = @ \cup {session}]
          /\ exclude_ids' = IF branch = "System" /\ session.name \in exclude_apps
                            THEN exclude_ids \cup {session.id} ELSE exclude_ids
          /\ IF session \in live /\ branch # "Excluded"
             THEN /\ SetMasterVolume(session.id, level)
                  /\ calls' = [calls EXCEPT ![t] = @ \cup
                        {[name |-> session.name, id |-> session.id, level |-> level]}]
             ELSE UNCHANGED <<vol, calls, apps>>
    /\ UNCHANGED <<live, voice_level, system_level, known_sessions, voice_ids,
                   exit_event, lifecycle, pc, usbLocals, monLocals, args, sessions, budget, apps>>

\* One iteration of "for session in sessions" that completes.  A session
\* whose process has exited since the list was taken has no Process any more
\* and is passed over.
ApplierVisit(t) ==
    /\ pc[t] = "apply"
    /\ Remaining(t) # {}
    /\ LET session == NextSession(t)
           branch == Treatment(session.id)
           level == BranchLevel(branch, args[t][1], args[t][2])
       IN /\ handled' = [handled EXCEPT ![t] = @ \cup {session}]
          /\ IF session \in live /\ branch # "Excluded"
             THEN /\ SetMasterVolume(session.id, level)
                  /\ calls' = [calls EXCEPT ![t] = @ \cup
                        {[name |-> session.name, id |-> session.id, level |-> level]}]
             ELSE UNCHANGED <<vol, calls, apps>>
    /\ UNCHANGED <<live, shared, exit_event, lifecycle, pc, usbLocals, monLocals,
                   args, sessions, budget, apps>>

\* One iteration that raises: the session's process has vanished since the
\* list was taken (NoSuchProcess from session.Process.name()).
ApplierNoSuchProcess(t) ==
    /\ pc[t] = "apply"
    /\ Remaining(t) # {}
    /\ NextSession(t) \notin live
    /\ handled' = [handled EXCEPT ![t] = @ \cup {NextSession(t)}]
    /\ Goto(t, OnNoSuchProcess(t))
    /\ UNCHANGED <<live, vol, shared, exit_event, lifecycle, usbLocals, monLocals,
                   args, sessions, calls, budget, apps>>

\* One iteration that raises: QueryInterface or SetMasterVolume fails on a
\* session (a COM error; the session's volume control is not ready or gone).
ApplierCallFails(t) ==
    /\ pc[t] = "apply"
    /\ Remaining(t) # {}
    /\ NextSession(t) \in live
    /\ handled' = [handled EXCEPT ![t] = @ \cup {NextSession(t)}]
    /\ Goto(t, OnOtherError(t))
    /\ UNCHANGED <<live, vol, shared, exit_event, lifecycle, usbLocals, monLocals,
                   args, sessions, calls, budget, apps>>

\* The for loop is exhausted: set_volume_levels returns to its caller and
\* its frame is gone.
ApplierReturn(t) ==
    /\ pc[t] = "apply"
    /\ Remaining(t) = {}
    /\ Goto(t, IF t = "mon" THEN "update" ELSE "loop")
    /\ LeaveApplier(t)
    /\ UNCHANGED <<live, vol, shared, exit_event, lifecycle, usbLocals, monLocals, budget, apps>>

\* ---------------------------------------------------- usb_reader (Dial Poll Loop)
UsbLoop_IgnoresSignal ==
    /\ pc["usb"] = "loop"
    /\ Goto("usb", "read")
    /\ data' = NoReport
    /\ errno' = 0
    /\ LeaveApplier("usb")
    /\ UNCHANGED <<live, vol, shared, exit_event, lifecycle, monLocals, budget, apps>>

\* while not self.exit_event.is_set(); the previous iteration's locals are gone.
UsbLoop ==
    /\ pc["usb"] = "loop"
    /\ Goto("usb", IF exit_event THEN "finally" ELSE "read")
    /\ data' = NoReport
    /\ errno' = 0
    /\ LeaveApplier("usb")
    /\ UNCHANGED <<live, vol, shared, exit_event, lifecycle, monLocals, budget, apps>>

\* data = self.dev.read(...) returns a report; voice_level = data[2];
\* system_level = data[1]; the validity test.
UsbRead(report) ==
    /\ pc["usb"] = "read"
    /\ reportsLeft > 0
    /\ data' = report
    /\ reportsLeft' = reportsLeft - 1
    /\ Goto("usb", IF Accepted(report) THEN "set_voice" ELSE "loop")
    /\ UNCHANGED <<live, vol, shared, exit_event, lifecycle, errno, monLocals, passVars,
                   changesLeft, apps>>

UsbReadError_OtherErrorBreaks(e) ==
    /\ pc["usb"] = "read"
    /\ errno' = e
    /\ Goto("usb", IF e = ETIMEDOUT THEN "loop" ELSE "finally")
    /\ UNCHANGED <<live, vol, shared, exit_event, lifecycle, data, monLocals,
                   passVars, budget, apps>>

UsbReadError_DisconnectStopsAll(e) ==
    /\ pc["usb"] = "read"
    /\ errno' = e
    /\ exit_event' = (exit_event \/ e = ENODEV)
    /\ Goto("usb", IF e = ETIMEDOUT THEN "loop"
                   ELSE IF e = ENODEV THEN "finally"
                   ELSE "loop")
    /\ UNCHANGED <<live, vol, shared, lifecycle, data, monLocals, passVars, budget, apps>>

\* self.dev.read(...) raises usb.core.USBError with errno e:
\* continue on a timeout, break on a disconnection, log and go on otherwise.
UsbReadError(e) ==
    /\ pc["usb"] = "read"
    /\ errno' = e
    /\ Goto("usb", IF e = ETIMEDOUT THEN "loop"
                   ELSE IF e = ENODEV THEN "finally"
                   ELSE "loop")
    /\ UNCHANGED <<live, vol, shared, exit_event, lifecycle, data, monLocals, passVars, budget, apps>>

\* self.voice_level = voice_level
UsbSetVoice ==
    /\ pc["usb"] = "set_voice"
    /\ voice_level' = VoiceByte(data)
    /\ Goto("usb", "set_system")
    /\ UNCHANGED <<live, vol, system_level, known_sessions, voice_ids, exclude_ids,
                   exit_event, lifecycle, usbLocals, monLocals, passVars, budget, apps>>

\* self.system_level = system_level
UsbSetSystem ==
    /\ pc["usb"] = "set_system"
    /\ system_level' = SystemByte(data)
    /\ Goto("usb", "call")
    /\ UNCHANGED <<live, vol, voice_level, known_sessions, voice_ids, exclude_ids,
                   exit_event, lifecycle, usbLocals, monLocals, passVars, budget, apps>>

\* self.set_volume_levels(self.voice_level, self.system_level)
UsbCall ==
    /\ pc["usb"] = "call"
    /\ EnterApplier("usb", voice_level, system_level)
    /\ UNCHANGED <<live, vol, shared, exit_event, lifecycle, usbLocals, monLocals, budget, apps>>

\* except Exception: log; finally: usb.util.dispose_resources(self.dev)
UsbFinally ==
    /\ pc["usb"] = "finally"
    /\ Goto("usb", "done")
    /\ data' = NoReport
    /\ errno' = 0
    /\ LeaveApplier("usb")
    /\ UNCHANGED <<live, vol, shared, exit_event, lifecycle, monLocals, budget, apps>>

\* ------------------------------------- monitor_new_sessions (Session Poll Loop)
\* self.known_sessions = set(... GetAllSessions() if session.Process)
MonInit ==
    /\ pc["mon"] = "init"
    /\ known_sessions' = SessionKeys
    /\ Goto("mon", "loop")
    /\ UNCHANGED <<live, vol, voice_level, system_level, voice_ids, exclude_ids,
                   exit_event, lifecycle, usbLocals, monLocals, passVars, budget, apps>>

\* while not self.exit_event.is_set(); the previous iteration's locals are gone.
MonLoop ==
    /\ pc["mon"] = "loop"
    /\ Goto("mon", IF exit_event THEN "done" ELSE "snap")
    /\ current_sessions' = {}
    /\ new_sessions' = {}
    /\ arg_voice' = 100
    /\ LeaveApplier("mon")
    /\ UNCHANGED <<live, vol, shared, exit_event, lifecycle, usbLocals, budget, apps>>

MonSnapshot_ByName ==
    /\ pc["mon"] = "snap"
    /\ current_sessions' = SessionKeys
    /\ new_sessions' = {s \in SessionKeys : \A k \in known_sessions : k.name # s.name}
    /\ Goto("mon", IF \E s \in SessionKeys : \A k \in known_sessions : k.name # s.name
                   THEN "classify" ELSE "update")
    /\ UNCHANGED <<live, vol, shared, exit_event, lifecycle, usbLocals, arg_voice,
                   passVars, budget, apps>>

MonSnapshot_AlwaysCalls ==
    /\ pc["mon"] = "snap"
    /\ current_sessions' = SessionKeys
    /\ new_sessions' = SessionKeys \ known_sessions
    /\ Goto("mon", IF SessionKeys \ known_sessions # {} THEN "classify" ELSE "call")
    /\ UNCHANGED <<live, vol, shared, exit_event, lifecycle, usbLocals, arg_voice,
                   passVars, budget, apps>>

\* current_sessions = ...; new_sessions = current_sessions - self.known_sessions
MonSnapshot ==
    /\ pc["mon"] = "snap"
    /\ current_sessions' = SessionKeys
    /\ new_sessions' = SessionKeys \ known_sessions
    /\ Goto("mon", IF SessionKeys \ known_sessions # {} THEN "classify" ELSE "update")
    /\ UNCHANGED <<live, vol, shared, exit_event, lifecycle, usbLocals, arg_voice,
                   passVars, budget, apps>>

\* A process vanishes while the snapshot is built: NoSuchProcess, continue.
MonSnapshotVanish(s) ==
    /\ pc["mon"] = "snap"
    /\ changesLeft > 0
    /\ s \in live
    /\ live' = live \ {s}
    /\ vol' = [j \in DOMAIN vol \ {s.id} |-> vol[j]]
    /\ changesLeft' = changesLeft - 1
    /\ Goto("mon", "loop")
    /\ UNCHANGED <<shared, exit_event, lifecycle, usbLocals, monLocals, passVars, reportsLeft, apps>>

NameClass_ExcludedFirst(app_name) ==
    IF app_name \in exclude_apps THEN "Excluded"
    ELSE IF app_name \in voice_apps THEN "Voice"
    ELSE "System"

\* The if/elif/else over a new session's name.
NameClass(app_name) ==
    IF app_name \in voice_apps THEN "Voice"
    ELSE IF app_name \in exclude_apps THEN "Excluded"
    ELSE "System"

\* One iteration of "for app_name, app_id in new_sessions".
MonClassify(s) ==
    /\ pc["mon"] = "classify"
    /\ s \in new_sessions
    /\ \A u \in new_sessions : s.id <= u.id
    /\ new_sessions' = new_sessions \ {s}
    /\ voice_ids' = IF NameClass(s.name) = "Voice" THEN voice_ids \cup {s.id} ELSE voice_ids
    /\ exclude_ids' = IF NameClass(s.name) = "Excluded" THEN exclude_ids \cup {s.id}
                      ELSE exclude_ids
    /\ Goto("mon", IF new_sessions \ {s} = {} THEN "call" ELSE "classify")
    /\ UNCHANGED <<live, vol, voice_level, system_level, known_sessions, exit_event, lifecycle,
                   usbLocals, current_sessions, arg_voice, passVars, budget, apps>>

\* self.set_volume_levels(self.voice_level, ...: the first argument is loaded.
MonLoadVoice ==
    /\ pc["mon"] = "call"
    /\ arg_voice' = voice_level
    /\ Goto("mon", "call2")
    /\ UNCHANGED <<live, vol, shared, exit_event, lifecycle, usbLocals, current_sessions,
                   new_sessions, passVars, budget, apps>>

\* ... self.system_level): the second argument is loaded and the call made.
MonCall ==
    /\ pc["mon"] = "call2"
    /\ EnterApplier("mon", arg_voice, system_level)
    /\ UNCHANGED <<live, vol, shared, exit_event, lifecycle, usbLocals, monLocals, budget, apps>>

\* self.known_sessions = current_sessions
MonUpdate ==
    /\ pc["mon"] = "update"
    /\ known_sessions' = current_sessions
    /\ Goto("mon", "sleep")
    /\ UNCHANGED <<live, vol, voice_level, system_level, voice_ids, exclude_ids,
                   exit_event, lifecycle, usbLocals, monLocals, passVars, budget, apps>>

\* time.sleep(1), the one delay of the cycle
MonSleep ==
    /\ pc["mon"] = "sleep"
    /\ Goto("mon", "loop")
    /\ UNCHANGED <<live, vol, shared, exit_event, lifecycle, usbLocals, monLocals,
                   passVars, budget, apps>>

\* A process vanishes while the startup snapshot is built: NoSuchProcess is
\* raised outside the try statement and ends the thread.
MonInitVanish(s) ==
    /\ pc["mon"] = "init"
    /\ changesLeft > 0
    /\ s \in live
    /\ live' = live \ {s}
    /\ vol' = [j \in DOMAIN vol \ {s.id} |-> vol[j]]
    /\ changesLeft' = changesLeft - 1
    /\ Goto("mon", "dead")
    /\ UNCHANGED <<shared, exit_event, lifecycle, usbLocals, monLocals, passVars,
                   reportsLeft, apps>>

\* ---------------------------------------------------- Lifecycle Controller
\* What find_usb_device finds.
DiscoveryOutcomes == {"ok", "no_device", "no_interface", "no_endpoint"}

\* Thread.is_alive(): started and not finished.
Alive(t) == pc[t] \notin {"new", "done", "dead"}
Terminated(t) == pc[t] \in {"done", "dead"}

Construct_FailureNotRaised(found) ==
    /\ ctl = "construct"
    /\ ctl' = IF found = "ok" THEN "start_usb" ELSE found
    /\ pc' = IF found = "ok" THEN pc ELSE [pc EXCEPT !["usb"] = "loop"]
    /\ UNCHANGED <<live, vol, shared, exit_event, stop, usbLocals, monLocals,
                   passVars, budget, apps>>

\* CoreMix(...): __init__ ends with find_usb_device, which raises ValueError
\* when the device, the interface or the endpoint is missing; the exception
\* leaves the main program before coremix.run() is reached.
Construct(found) ==
    /\ ctl = "construct"
    /\ ctl' = IF found = "ok" THEN "start_usb" ELSE found
    /\ UNCHANGED <<live, vol, shared, exit_event, stop, pc, usbLocals, monLocals,
                   passVars, budget, apps>>

\* usb_thread = threading.Thread(target=self.usb_reader); usb_thread.start()
StartUsb ==
    /\ ctl = "start_usb"
    /\ ctl' = "start_mon"
    /\ Goto("usb", "loop")
    /\ UNCHANGED <<live, vol, shared, exit_event, stop, usbLocals, monLocals,
                   passVars, budget, apps>>

\* monitor_thread = threading.Thread(...); monitor_thread.start()
StartMon ==
    /\ ctl = "start_mon"
    /\ ctl' = "join"
    /\ Goto("mon", "init")
    /\ UNCHANGED <<live, vol, shared, exit_event, stop, usbLocals, monLocals,
                   passVars, budget, apps>>

\* while usb_thread.is_alive() or monitor_thread.is_alive(): the loop is left
\* when neither thread is alive.
JoinLoop ==
    /\ ctl = "join"
    /\ ~Alive("usb") /\ ~Alive("mon")
    /\ ctl' = "finally"
    /\ UNCHANGED <<live, vol, shared, exit_event, stop, pc, usbLocals, monLocals,
                   passVars, budget, apps>>

\* except KeyboardInterrupt: self.exit_event.set()
Interrupt ==
    /\ ctl = "join"
    /\ exit_event' = TRUE
    /\ ctl' = "join_usb"
    /\ UNCHANGED <<live, vol, shared, stop, pc, usbLocals, monLocals, passVars, budget, apps>>

\* usb_thread.join()
JoinUsb ==
    /\ ctl = "join_usb"
    /\ ~Alive("usb")
    /\ ctl' = "finally"
    /\ UNCHANGED <<live, vol, shared, exit_event, stop, pc, usbLocals, monLocals,
                   passVars, budget, apps>>

\* finally: usb.util.dispose_resources(self.dev); if usb_thread.is_alive():
\* usb_thread.join()
RunFinally ==
    /\ ctl = "finally"
    /\ ~Alive("usb")
    /\ ctl' = "exit"
    /\ UNCHANGED <<live, vol, shared, exit_event, stop, pc, usbLocals, monLocals,
                   passVars, budget, apps>>

\* sys.exit(0): the interpreter ends the process once no thread still runs
\* (the threads are not daemon threads).
ProcessExit ==
    /\ ctl = "exit"
    /\ ~Alive("usb") /\ ~Alive("mon")
    /\ ctl' = "ended"
    /\ UNCHANGED <<live, vol, shared, exit_event, stop, pc, usbLocals, monLocals,
                   passVars, budget, apps>>

\* stop(), called from another thread while run() waits and both loops run:
\* self.exit_event.set(); then two Thread objects are created anew and
\* usb_thread.join() is called on one that was never started, which raises
\* RuntimeError.
Stop ==
    /\ stop = "idle"
    /\ ctl = "join"
    /\ Alive("usb") /\ Alive("mon")
    /\ exit_event' = TRUE
    /\ stop' = "raised"
    /\ UNCHANGED <<live, vol, shared, ctl, pc, usbLocals, monLocals, passVars, budget, apps>>

Next ==
    \/ \E found \in DiscoveryOutcomes : Construct(found)
    \/ StartUsb
    \/ StartMon
    \/ JoinLoop
    \/ Interrupt
    \/ JoinUsb
    \/ RunFinally
    \/ ProcessExit
    \/ \E s \in apps : SessionAppears(s)
    \/ \E s \in live : SessionDisappears(s)
    \/ UsbLoop
    \/ \E r \in Reports : UsbRead(r)
    \/ \E e \in {ETIMEDOUT, ENODEV, EIO} : UsbReadError(e)
    \/ UsbSetVoice
    \/ UsbSetSystem
    \/ UsbCall
    \/ UsbFinally
    \/ MonInit
    \/ MonLoop
    \/ MonSnapshot
    \/ \E s \in live : MonSnapshotVanish(s)
    \/ \E s \in new_sessions : MonClassify(s)
    \/ MonLoadVoice
    \/ MonCall
    \/ MonUpdate
    \/ MonSleep
    \/ \E s \in live : MonInitVanish(s)
    \/ \E t \in Threads : ApplierVisit(t)
    \/ \E t \in Threads : ApplierNoSuchProcess(t)
    \/ \E t \in Threads : ApplierCallFails(t)
    \/ \E t \in Threads : ApplierReturn(t)

Spec == Init /\ [][Next]_vars
SpecDial == InitDial /\ [][Next]_vars
SpecChurn == InitChurn /\ [][Next]_vars
SpecTwins == InitTwins /\ [][Next]_vars

\* The program as shipped never calls stop(): its main program calls run()
\* only.  A host program that holds the CoreMix object can call it.
NextWithStop == Next \/ Stop
SpecStop == InitStop /\ [][NextWithStop]_vars

\* The steps of each thread function, its Applier passes included.
UsbStep ==
    \/ UsbLoop
    \/ \E r \in Reports : UsbRead(r)
    \/ \E e \in {ETIMEDOUT, ENODEV, EIO} : UsbReadError(e)
    \/ UsbSetVoice
    \/ UsbSetSystem
    \/ UsbCall
    \/ UsbFinally
    \/ ApplierVisit("usb")
    \/ ApplierNoSuchProcess("usb")
    \/ ApplierCallFails("usb")
    \/ ApplierReturn("usb")
MonStep ==
    \/ MonInit
    \/ MonLoop
    \/ MonSnapshot
    \/ \E s \in live : MonSnapshotVanish(s)
    \/ \E s \in live : MonInitVanish(s)
    \/ \E s \in new_sessions : MonClassify(s)
    \/ MonLoadVoice
    \/ MonCall
    \/ MonUpdate
    \/ MonSleep
    \/ ApplierVisit("mon")
    \/ ApplierNoSuchProcess("mon")
    \/ ApplierCallFails("mon")
    \/ ApplierReturn("mon")

\* Every blocking call (device read, sleep, session enumeration, volume call)
\* returns and the scheduler runs every thread: a started thread that has not
\* finished keeps taking steps.
SpecStopFair == SpecStop /\ WF_vars(UsbStep) /\ WF_vars(MonStep)

\* ------------------------------------------------------------------ claims
Pair(v, s) == <<v, s>>
PassDone(t) == pc[t] = "apply" /\ Remaining(t) = {}
CallTo(session, level) == [name |-> session.name, id |-> session.id, level |-> level]
AcceptedBytes(d) == d[2] = 100 \/ d[1] = 100

C1_StartLevels == voice_level = 100 /\ system_level = 100
C1_Step ==
    /\ reportsLeft' # reportsLeft =>
          /\ pc["usb"] = "read"
          /\ (pc'["usb"] = "set_voice") <=> AcceptedBytes(data')
          /\ ~AcceptedBytes(data') =>
                /\ pc'["usb"] = "loop"
                /\ UNCHANGED <<voice_level, system_level, known_sessions, voice_ids,
                               exclude_ids, vol, passVars>>
    /\ pc'["usb"] \in {"set_voice", "set_system", "call", "apply"} => AcceptedBytes(data')
    /\ pc'["usb"] \in {"call", "apply"} =>
          voice_level' = data'[2] /\ system_level' = data'[1]
    /\ Pair(voice_level, system_level)' # Pair(voice_level, system_level) =>
          /\ pc["usb"] \in {"set_voice", "set_system"}
          /\ pc'["usb"] # pc["usb"]
          /\ AcceptedBytes(data)
\* C1: the Dial Poll Loop accepts a report iff byte 2 (voice) or byte 1
\* (system) is 100; once it has stored an accepted report the shared levels
\* are exactly (voice = byte 2, system = byte 1); a rejected report changes
\* no shared state and leads to no Applier call; nothing but the two stores of
\* an accepted report changes the levels, which start at (100, 100).
C1_AcceptedReportSetsLevels == C1_StartLevels /\ [][C1_Step]_vars
\* An accepted report (voice 40, system 100) has been stored and its pass runs.
C1_Witness ==
    /\ pc["usb"] = "apply"
    /\ data[2] = 40 /\ data[1] = 100
    /\ voice_level = 40 /\ system_level = 100

\* C2: the pair of levels the Session Poll Loop passes to the Applier is the
\* initial pair (100, 100) or the pair of one single accepted reading.  Every
\* accepted reading, like the initial pair, has a level that is 100, so a pair
\* with no 100 in it has the voice level of one reading and the system level
\* of another.
C2_NoTornPair ==
    pc["mon"] = "apply" => (args["mon"][1] = 100 \/ args["mon"][2] = 100)

C3_Visit(t) ==
    \A session \in handled'[t] \ handled[t] :
        /\ HasProcess(session)
        /\ (pc'[t] = "apply" /\ session \in live) =>
              IF session.id \in voice_ids
              THEN /\ calls'[t] = calls[t] \cup {CallTo(session, args[t][1])}
                   /\ vol'[session.id] = args[t][1]
              ELSE IF session.id \in exclude_ids
              THEN calls'[t] = calls[t] /\ vol' = vol
              ELSE /\ calls'[t] = calls[t] \cup {CallTo(session, args[t][2])}
                   /\ vol'[session.id] = args[t][2]
C3_Step ==
    \A t \in Threads :
        /\ pc[t] = "apply" => C3_Visit(t)
        /\ (calls'[t] # calls[t] /\ calls'[t] # {}) =>
              pc[t] = "apply" /\ Cardinality(handled'[t]) = Cardinality(handled[t]) + 1
        /\ (pc[t] = "apply" /\ pc'[t] = IF t = "mon" THEN "update" ELSE "loop") =>
              \A session \in sessions[t] : HasProcess(session) => session \in handled[t]
\* C3: an Applier pass with levels (voice_level, system_level) issues, for a
\* live session with an owning process, SetMasterVolume(voice_level / 100) if
\* its id is classified Voice, no call if it is classified Excluded, and
\* SetMasterVolume(system_level / 100) if it is classified System or has no
\* entry; calls are issued by such iterations only, and the pass returns only
\* when it has reached every session of its list that has a process.
C3_ApplierPass == [][C3_Step]_vars
\* A pass with levels (voice 40, system 100) has run over "x" (Excluded, no
\* call) and "b" (Voice, set to 0.40).
C3_Witness ==
    /\ PassDone("usb")
    /\ args["usb"] = Pair(40, 100)
    /\ Session("x", 1) \in live /\ Session("b", 2) \in live
    /\ 1 \in exclude_ids /\ 2 \in voice_ids
    /\ calls["usb"] = {CallTo(Session("b", 2), 40)}
    /\ handled["usb"] = {Session("x", 1), Session("b", 2)}

\* C4: every instance observed in a snapshot, the startup snapshot included,
\* has from then on the one class its name determines (Voice if the name is
\* a voice name, else Excluded if it is an excluded name, else System), and
\* its id is never in both the voice-id set and the excluded-id set.
C4_ObservedInstancesClassified ==
    \A s \in known_sessions :
        /\ s.name \in voice_apps => s.id \in voice_ids
        /\ (s.name \in exclude_apps /\ s.name \notin voice_apps) => s.id \in exclude_ids
        /\ (s.name \notin exclude_apps /\ s.name \notin voice_apps) =>
              s.id \notin voice_ids \cup exclude_ids
        /\ ~(s.id \in voice_ids /\ s.id \in exclude_ids)

C5_Step ==
    \A id \in {s.id : s \in Apps} :
        /\ id \in voice_ids => id \in voice_ids'
        /\ id \in exclude_ids => id \in exclude_ids'
        /\ id \in voice_ids \cup exclude_ids => Treatment(id)' = Treatment(id)
\* C5: once an id has been given a class, no step changes the class under
\* which the Applier treats it, and no step removes an entry, also when the
\* id reappears later under another process name.
C5_StableAppendOnly == [][C5_Step]_vars

C6_InBoth(name) == name \in voice_apps /\ name \in exclude_apps
C6_Step ==
    /\ pc["mon"] = "classify" =>
          \A s \in new_sessions \ new_sessions' :
              C6_InBoth(s.name) => s.id \in voice_ids' /\ exclude_ids' = exclude_ids
    /\ \A t \in Threads : \A session \in handled'[t] \ handled[t] :
          (/\ pc'[t] = "apply"
           /\ session \in live
           /\ C6_InBoth(session.name)
           /\ session.id \in voice_ids) =>
              /\ CallTo(session, args[t][1]) \in calls'[t]
              /\ vol'[session.id] = args[t][1]
C7_ExcludedUntouched ==
    \A t \in Threads : \A c \in calls[t] :
        ~(c.name \in exclude_apps /\ c.name \notin voice_apps)

\* C8: when the Dial Poll Loop has finished the pass of an accepted reading,
\* every session of that pass that is live and whose process name is a voice
\* name has been set to the reading's voice level (byte 2) in that pass.
C8_VoiceTracksDial ==
    PassDone("usb") =>
        \A session \in sessions["usb"] \cap live :
            session.name \in voice_apps => CallTo(session, data[2]) \in calls["usb"]

C9_ApplierStep(t) ==
    \/ pc[t] # "apply" /\ pc'[t] = "apply"
    \/ pc[t] = "apply" /\ <<pc[t], handled[t], calls[t]>>' # <<pc[t], handled[t], calls[t]>>
C9_Step ==
    /\ \A t \in Threads :
          C9_ApplierStep(t) => UNCHANGED <<voice_ids, exclude_ids, known_sessions>>
    /\ <<voice_ids, exclude_ids>>' # <<voice_ids, exclude_ids>> =>
          /\ pc["mon"] = "classify"
          /\ new_sessions' # new_sessions
\* C9: no step of the Applier, entered from either loop, changes the
\* voice-id set, the excluded-id set or known_sessions, also when it meets a
\* live session whose id has no entry; entries are inserted by the Session
\* Poll Loop's classification step and by nothing else.
C9_ApplierWritesNoTable == [][C9_Step]_vars
\* A pass with levels (voice 100, system 40) has set a session of "x" whose
\* id has no entry to the system level, and the id still has no entry.
C9_Witness ==
    \E t \in Threads : \E c \in calls[t] :
        /\ pc[t] = "apply"
        /\ c.id \notin voice_ids \cup exclude_ids
        /\ c.name \in exclude_apps
        /\ args[t] = Pair(100, 40)
        /\ c.level = 40

C10_PassAborted(t) == pc[t] # "apply" /\ sessions[t] # {}
\* C10: a failure on one session does not abort the pass.  A pass is left
\* with its frame standing only by an exception, so: whenever a pass has been
\* left that way, no session of its list was left unreached and the loop that
\* called it is still running.
C10_FailureIsolated ==
    \A t \in Threads :
        C10_PassAborted(t) =>
            /\ Remaining(t) = {}
            /\ pc[t] \notin {"finally", "done", "dead"}

StartupFailed == ctl \in DiscoveryOutcomes \ {"ok"}
NeverStarted == \A t \in Threads : pc[t] = "new"
\* C11: if the device, the interface or the endpoint is not found, startup
\* ends in a failure state that is never left, neither loop is started and
\* no SetMasterVolume call is issued in that execution.
C11_StartupFailure ==
    /\ [](StartupFailed =>
            /\ NeverStarted
            /\ DOMAIN vol = {}
            /\ \A t \in Threads : calls[t] = {})
    /\ [][StartupFailed => ctl' = ctl]_vars
\* The interface is missing while an application plays audio.
C11_Witness == ctl = "no_interface" /\ live # {}

\* C12: stop(), called while both loops run, sets the cancellation signal and
\* returns normally, and only after both loops have exited: stop() does not
\* end with an exception, and whenever it has returned both loops are
\* terminated.
C12_StopWaitsForLoops ==
    /\ stop # "raised"
    /\ stop = "returned" => Terminated("usb") /\ Terminated("mon")

\* C13: once the cancellation signal is set, and every blocking call returns,
\* both loops eventually terminate, from whatever state they are in; and the
\* signal, once set, is never cleared.
C13_CooperativeCancellation ==
    /\ exit_event ~> (Terminated("usb") /\ Terminated("mon"))
    /\ [][exit_event => exit_event']_vars
\* The signal is set and both loops have returned from their while loops.
C13_Witness == exit_event /\ pc["usb"] = "done" /\ pc["mon"] = "done"

\* C14: the Dial Poll Loop runs its pass with exactly the levels of the
\* reading it has just stored, and when that pass is finished every live
\* session of it that is treated as System is at the reading's system level
\* (byte 1): 1.00 after (system 100, voice 40), 0.40 after (system 40,
\* voice 100).
C14_SystemSessionFollowsDial ==
    /\ pc["usb"] = "apply" =>
          /\ args["usb"] = Pair(data[2], data[1])
          /\ Pair(voice_level, system_level) = Pair(data[2], data[1])
    /\ PassDone("usb") =>
          \A session \in sessions["usb"] \cap live :
              Treatment(session.id) = "System" =>
                  /\ session.id \in DOMAIN vol
                  /\ vol[session.id] = data[1]

C15_Step ==
    /\ (pc["usb"] = "read" /\ pc'["usb"] = "finally") =>
          /\ pc'["mon"] = pc["mon"]
          /\ exit_event' = exit_event
          /\ ctl' = ctl
    /\ (pc["usb"] = "finally" /\ pc'["usb"] # "finally") => pc'["usb"] = "done"
    /\ (pc'["mon"] = "done" /\ pc["mon"] # "done") => exit_event
    /\ (exit_event' /\ ~exit_event) => (ctl' = "join_usb" \/ stop' = "raised")
    /\ (ctl' = "ended" /\ ctl # "ended") => (Terminated("usb") /\ Terminated("mon"))
\* C15: a disconnection error takes the Dial Poll Loop to its end, where the
\* device resources are released, and touches neither the Session Poll Loop
\* nor the cancellation signal: the Session Poll Loop leaves its while loop
\* only when the signal is set, and the signal is set only by the
\* controller's interrupt handler or by stop().  The controller ends the
\* process only when both loops have exited.
C15_DisconnectionFatalToDialLoopOnly ==
    /\ [](ctl = "ended" => Terminated("usb") /\ Terminated("mon"))
    /\ [][C15_Step]_vars
\* The Dial Poll Loop has ended without having read a report and without the
\* signal, i.e. by a disconnection, and the Session Poll Loop is in a pass
\* and has set a volume while the controller still waits.
C15_Witness ==
    /\ pc["usb"] = "done"
    /\ ~exit_event
    /\ reportsLeft = MaxReports
    /\ ctl = "join"
    /\ pc["mon"] = "apply"
    /\ calls["mon"] # {}

C16_Step ==
    /\ (pc["usb"] = "read" /\ errno' \in {ETIMEDOUT, EIO}) =>
          /\ pc'["usb"] = "loop"
          /\ UNCHANGED <<voice_level, system_level, vol, passVars>>
    /\ (pc["usb"] = "loop" /\ pc'["usb"] # "loop" /\ ~exit_event) => pc'["usb"] = "read"
    /\ (pc'["usb"] = "apply" /\ pc["usb"] # "apply") => (pc["usb"] = "call" /\ errno = 0)
    /\ (pc'["usb"] = "finally" /\ pc["usb"] # "finally") =>
          \/ pc["usb"] = "read" /\ errno' = ENODEV
          \/ pc["usb"] = "loop" /\ exit_event
          \/ pc["usb"] = "apply"
\* C16: in the Dial Poll Loop a read timeout and a device error other than
\* a disconnection leave the loop running (its next step is a read again),
\* change neither the levels nor any volume and start no Applier pass; the
\* loop comes to its end only by a disconnection error, by the cancellation
\* signal seen at the top of an iteration, or by an exception out of an
\* Applier pass.
C16_TransientReadErrors == [][C16_Step]_vars
\* A device error other than a disconnection has been caught and the loop is
\* back at the top of its while statement, the signal not set.
C16_Witness ==
    /\ errno = EIO
    /\ pc["usb"] = "loop"
    /\ ~exit_event
    /\ live # {}

C17_Raised(t) ==
    \/ /\ pc[t] = "apply"
       /\ pc'[t] # "apply"
       /\ \E session \in handled'[t] \ handled[t] : session \notin live
    \/ /\ t = "mon"
       /\ pc[t] \in {"init", "snap"}
       /\ pc'[t] # pc[t]
       /\ live' # live
\* C17: a NoSuchProcess raised while the Session Poll Loop builds a snapshot,
\* or inside an Applier pass of either loop, is swallowed: the loop that hit
\* it goes to the top of its while statement for its next iteration.
C17_NoSuchProcessSwallowed ==
    [][\A t \in Threads : C17_Raised(t) => pc'[t] = "loop"]_vars

C18_OnApplierPath == pc["mon"] \in {"classify", "call", "call2", "apply"}
C18_Step ==
    /\ (pc["mon"] = "init" /\ pc'["mon"] = "loop") => known_sessions' = SessionKeys
    /\ (pc["mon"] = "snap" /\ pc'["mon"] # "snap" /\ live' = live) =>
          /\ current_sessions' = SessionKeys
          /\ pc'["mon"] = IF SessionKeys \ known_sessions # {} THEN "classify" ELSE "update"
    /\ (pc["mon"] \in {"classify", "call", "call2"}) =>
          pc'["mon"] \in {"classify", "call", "call2", "apply"}
    /\ (pc'["mon"] = "apply" /\ pc["mon"] # "apply") =>
          /\ pc["mon"] = "call2"
          /\ new_sessions = {}
          /\ current_sessions \ known_sessions # {}
\* C18: the Session Poll Loop invokes the Applier in a cycle if and only if
\* the cycle's snapshot has an instance that is not in known_sessions.  The
\* startup snapshot goes into known_sessions as it is, so its instances are
\* not new; a cycle whose snapshot has nothing new goes straight to the
\* replacement of known_sessions; a cycle whose snapshot has a new instance
\* classifies all of them and then invokes the Applier, in that cycle.
C18_ApplierIffNewInstance ==
    /\ [](C18_OnApplierPath => current_sessions \ known_sessions # {})
    /\ [][C18_Step]_vars
\* An application of the startup snapshot is known, another one has appeared
\* since, and the Session Poll Loop is in the pass it triggered.
C18_Witness ==
    /\ pc["mon"] = "apply"
    /\ known_sessions # {}
    /\ known_sessions \subseteq live
    /\ current_sessions \ known_sessions # {}

C19_Step ==
    /\ (pc'["mon"] = "call" /\ pc["mon"] # "call") => pc["mon"] = "sleep"
    /\ (pc["mon"] = "classify" /\ pc'["mon"] # "classify") => pc'["mon"] = "sleep"
    /\ pc["mon"] \in {"classify", "call", "call2", "apply"} =>
          known_sessions' = known_sessions
\* C19: in a cycle of the Session Poll Loop that found new instances, a delay
\* is taken after the classification and before the Applier is invoked (the
\* step after the classification is the delay, and the invocation is entered
\* from the delay and from nowhere else), and known_sessions is not replaced
\* before the Applier has been invoked.
C19_SettlingDelayBeforeApplier == [][C19_Step]_vars

C20_Twin(s) ==
    /\ s \in SessionKeys
    /\ \A k \in known_sessions : k.id # s.id
    /\ \E k \in known_sessions \cap live : k.name = s.name
C20_Step ==
    /\ (pc["mon"] = "snap" /\ pc'["mon"] # "snap" /\ live' = live) =>
          \A s \in SessionKeys :
              C20_Twin(s) => (s \in new_sessions' /\ pc'["mon"] = "classify")
    /\ pc["mon"] = "classify" =>
          \A s \in new_sessions \ new_sessions' :
              s.name \in voice_apps => s.id \in voice_ids'
    /\ (pc["mon"] = "classify" /\ pc'["mon"] # "classify") =>
          (new_sessions' = {} /\ pc'["mon"] = "call")
    /\ pc["mon"] \in {"call", "call2"} => pc'["mon"] \in {"call", "call2", "apply"}
\* C20: new instances are detected by process id, not by name.  When the
\* snapshot has a process whose id is not known while a live process of the
\* same name is known, the Session Poll Loop reports it as new in that
\* cycle, classifies it and goes on to invoke the Applier.
C20_DetectedById == [][C20_Step]_vars
\* "v" under id 1 was known, "v" under id 2 appeared, was classified Voice,
\* and the pass it triggered is running.
C20_Witness ==
    /\ pc["mon"] = "apply"
    /\ Session("v", 1) \in known_sessions \cap live
    /\ Session("v", 2) \in current_sessions \ known_sessions
    /\ 2 \in voice_ids

C21_Quiet ==
    /\ pc["usb"] \in {"loop", "read"}
    /\ pc["mon"] \in {"loop", "snap", "update", "sleep"}
    /\ SessionKeys = known_sessions
\* C21: no stale overwrite across the loops.  Whenever both loops run, no
\* Applier pass is in progress or being prepared, and the live sessions are
\* the ones of the Session Poll Loop's last snapshot, every live session whose
\* volume a pass has set is at the current shared voice level if its id is
\* classified Voice and at the current shared system level if it is treated
\* as System: no pass of the Session Poll Loop has left older levels behind.
C21_NoStaleOverwrite ==
    C21_Quiet =>
        \A s \in live :
            s.id \in DOMAIN vol =>
                /\ Treatment(s.id) = "Voice" => vol[s.id] = voice_level
                /\ Treatment(s.id) = "System" => vol[s.id] = system_level

\* C22: Applier invocations are serialized: a pass triggered by the Dial Poll
\* Loop and a pass triggered by the Session Poll Loop are never in progress
\* at the same time.
C22_ApplierSerialized == ~(pc["usb"] = "apply" /\ pc["mon"] = "apply")

====
